---- MODULE Spec2Model ----
(***************************************************************************)
(* A model of secrev_cli.py: the interactive file selector                 *)
(* (review_and_filter_files_interactive) and the scan driver (main) with   *)
(* its character budget.                                                   *)
(*                                                                         *)
(* Strings are sequences of one-character strings, so that strip, lower,   *)
(* split, startswith, int() and Path.suffix are computed as Python         *)
(* computes them.  A path is the sequence of its segments below the scan   *)
(* root; its last segment is the file name.                                *)
(***************************************************************************)
EXTENDS Integers, Sequences, FiniteSets, TLC

\* ------------------------------------------------------------------ bounds
\* Longest list of discovered files.
MaxFiles == 2
\* Longest file content drawn character by character.
MaxContentLen == 2
\* Longest text handed to chunk_content on its own.
MaxInputLen == 5
\* Longest list of findings handed to generate_report on its own.
MaxFindings == 3

\* ----------------------------------------------------------------- strings
Digits == <<"0","1","2","3","4","5","6","7","8","9">>

\* str.lower() on one character
LowerChar(c) ==
  CASE c = "A" -> "a" []
       c = "B" -> "b" []
       c = "C" -> "c" []
       c = "D" -> "d" []
       c = "E" -> "e" []
       c = "F" -> "f" []
       c = "G" -> "g" []
       c = "H" -> "h" []
       c = "I" -> "i" []
       c = "J" -> "j" []
       c = "K" -> "k" []
       c = "L" -> "l" []
       c = "M" -> "m" []
       c = "N" -> "n" []
       c = "O" -> "o" []
       c = "P" -> "p" []
       c = "Q" -> "q" []
       c = "R" -> "r" []
       c = "S" -> "s" []
       c = "T" -> "t" []
       c = "U" -> "u" []
       c = "V" -> "v" []
       c = "W" -> "w" []
       c = "X" -> "x" []
       c = "Y" -> "y" []
       c = "Z" -> "z" []
       OTHER -> c

\* str.lower()
Lower(s) == [i \in 1..Len(s) |-> LowerChar(s[i])]

IsSpace(c) == c = " "

RECURSIVE LStrip(_, _)
\* str.lstrip: drop the leading characters that satisfy the set `drop`
LStrip(s, drop) ==
  IF s # <<>> /\ Head(s) \in drop THEN LStrip(Tail(s), drop) ELSE s

RECURSIVE RStrip(_, _)
\* str.rstrip
RStrip(s, drop) ==
  IF s # <<>> /\ s[Len(s)] \in drop THEN RStrip(SubSeq(s, 1, Len(s) - 1), drop) ELSE s

\* str.strip(): surrounding whitespace
Strip(s) == RStrip(LStrip(s, {" "}), {" "})

\* str.strip('.'): leading and trailing dots
StripDots(s) == RStrip(LStrip(s, {"."}), {"."})

\* str.startswith
StartsWith(s, p) == Len(s) >= Len(p) /\ SubSeq(s, 1, Len(p)) = p

RECURSIVE SplitFrom(_, _)
\* str.split(): the maximal runs of non-whitespace characters, in order.
\* `cur` is the run being read.
SplitFrom(s, cur) ==
  IF s = <<>>
    THEN IF cur = <<>> THEN <<>> ELSE <<cur>>
    ELSE IF IsSpace(Head(s))
      THEN IF cur = <<>> THEN SplitFrom(Tail(s), <<>>)
                         ELSE <<cur>> \o SplitFrom(Tail(s), <<>>)
      ELSE SplitFrom(Tail(s), Append(cur, Head(s)))

Split(s) == SplitFrom(s, <<>>)

DigitVal(c) == (CHOOSE i \in 1..10 : Digits[i] = c) - 1
IsDigit(c) == \E i \in 1..10 : Digits[i] = c

\* the digits of int(x) once the sign is gone
IsDigitString(s) == s # <<>> /\ \A i \in 1..Len(s) : IsDigit(s[i])

RECURSIVE DigitsVal(_)
DigitsVal(s) ==
  IF s = <<>> THEN 0 ELSE 10 * DigitsVal(SubSeq(s, 1, Len(s) - 1)) + DigitVal(s[Len(s)])

\* int(x) raises ValueError unless x is an optional sign and decimal digits
IsInt(s) ==
  IF s # <<>> /\ Head(s) \in {"-", "+"} THEN IsDigitString(Tail(s)) ELSE IsDigitString(s)

\* int(x)
IntVal(s) ==
  IF Head(s) = "-" THEN 0 - DigitsVal(Tail(s))
  ELSE IF Head(s) = "+" THEN DigitsVal(Tail(s))
  ELSE DigitsVal(s)

\* the index of the last '.' of a name, 0 when it has none (str.rfind + 1)
LastDot(s) ==
  IF \E i \in 1..Len(s) : s[i] = "."
    THEN CHOOSE i \in 1..Len(s) : s[i] = "." /\ \A j \in (i+1)..Len(s) : s[j] # "."
    ELSE 0

\* PurePath.suffix of a path: the last segment from its last dot on, unless
\* that dot is the first or the last character of the name
Suffix(path) ==
  LET name == path[Len(path)]
      d == LastDot(name)
  IN IF 1 < d /\ d < Len(name) THEN SubSeq(name, d, Len(name)) ELSE <<>>

\* ------------------------------------------------- extension normalisation
\* One element of the set comprehension of _normalize_extensions:
\* f".{e.strip('.').lower()}" if e.strip() else ""
NormalizeOne(e) == IF Strip(e) # <<>> THEN <<".">> \o Lower(StripDots(e)) ELSE <<>>

\* _normalize_extensions: the set of the normalised tokens, "" removed
_normalize_extensions(extensions) ==
  IF extensions = <<>> THEN {}
  ELSE {NormalizeOne(extensions[i]) : i \in 1..Len(extensions)} \ {<<>>}


\* --------------------------------------------------------------- discovery
DEFAULT_RELEVANT_EXTENSIONS ==
  { <<".","p","y">>, <<".","j","s">>, <<".","t","s">>, <<".","j","a","v","a">>,
    <<".","c">>, <<".","c","p","p">>, <<".","h">>, <<".","h","p","p">>,
    <<".","c","s">>, <<".","g","o">>, <<".","r","b">>, <<".","p","h","p">>,
    <<".","h","t","m","l">>, <<".","h","t","m">>, <<".","c","s","s">>, <<".","s","c","s","s">>,
    <<".","l","e","s","s">>, <<".","j","s","o","n">>, <<".","y","a","m","l">>, <<".","y","m","l">>,
    <<".","x","m","l">>, <<".","i","n","i">>, <<".","t","o","m","l">>, <<".","e","n","v">>,
    <<".","s","h">>, <<".","b","a","s","h">>, <<".","p","s","1">>, <<".","s","q","l">>,
    <<".","m","d">>, <<".","t","x","t">>, <<".","d","o","c","k","e","r","f","i","l","e">>, <<"d","o","c","k","e","r","f","i","l","e">>,
    <<".","t","f">>, <<".","h","c","l">> }

DEFAULT_EXCLUDED_EXTENSIONS ==
  { <<".","p","y","c">>, <<".","p","y","o">>, <<".","o">>, <<".","s","o">>,
    <<".","d","l","l">>, <<".","e","x","e">>, <<".","l","o","g">>, <<".","t","m","p">>,
    <<".","b","a","k">>, <<".","s","w","p">>, <<".","d","s","_","s","t","o","r","e">>, <<".","j","p","g">>,
    <<".","j","p","e","g">>, <<".","p","n","g">>, <<".","g","i","f">>, <<".","b","m","p">>,
    <<".","t","i","f","f">>, <<".","w","e","b","p">>, <<".","m","p","3">>, <<".","w","a","v">>,
    <<".","a","a","c">>, <<".","f","l","a","c">>, <<".","o","g","g">>, <<".","m","p","4">>,
    <<".","m","o","v">>, <<".","a","v","i">>, <<".","m","k","v">>, <<".","w","e","b","m">>,
    <<".","z","i","p">>, <<".","t","a","r">>, <<".","g","z">>, <<".","r","a","r">>,
    <<".","7","z">>, <<".","p","d","f">>, <<".","d","o","c">>, <<".","d","o","c","x">>,
    <<".","x","l","s">>, <<".","x","l","s","x">>, <<".","p","p","t">>, <<".","p","p","t","x">> }

DEFAULT_EXCLUDED_FILENAMES_PATTERNS ==
  { <<".","g","i","t","i","g","n","o","r","e">>, <<"l","i","c","e","n","s","e">>, <<"n","o","d","e","_","m","o","d","u","l","e","s">>,
    <<"v","e","n","v">>, <<".","v","e","n","v">>, <<"d","i","s","t">>,
    <<"b","u","i","l","d">>, <<"_","_","p","y","c","a","c","h","e","_","_">>, <<".","g","i","t">>,
    <<".","s","v","n">>, <<".","h","g">>, <<"p","a","c","k","a","g","e","-","l","o","c","k",".","j","s","o","n">>,
    <<"y","a","r","n",".","l","o","c","k">>, <<"c","o","m","p","o","s","e","r",".","l","o","c","k">>, <<"g","e","m","f","i","l","e",".","l","o","c","k">>,
    <<"p","i","p","f","i","l","e",".","l","o","c","k">> }

\* str.strip('/')
StripSlashes(s) == RStrip(LStrip(s, {"/"}), {"/"})

\* _normalize_patterns: the non-blank patterns, lowercased, without their
\* leading and trailing slashes
_normalize_patterns(patterns) ==
  {StripSlashes(Lower(patterns[n])) : n \in {m \in 1..Len(patterns) : Strip(patterns[m]) # <<>>}}

\* Path.name: the last segment of a path
Name(path) == path[Len(path)]

\* _should_prune_dir
_should_prune_dir(dirname, excluded_patterns) == Lower(dirname) \in excluded_patterns

\* mutant: the extension compared as written, without lower()
is_excluded_noLower(file_path, excluded_extensions, excluded_filenames_patterns) ==
  \/ Suffix(file_path) \in excluded_extensions
  \/ Lower(Name(file_path)) \in excluded_filenames_patterns
  \/ \E n \in 1..(Len(file_path) - 1) : Lower(file_path[n]) \in excluded_filenames_patterns

\* is_excluded, on a path given relative to root_dir
is_excluded(file_path, excluded_extensions, excluded_filenames_patterns) ==
  \/ Lower(Suffix(file_path)) \in excluded_extensions
  \/ Lower(Name(file_path)) \in excluded_filenames_patterns
  \/ \E n \in 1..(Len(file_path) - 1) : Lower(file_path[n]) \in excluded_filenames_patterns

\* discover_code_files.  `tree` lists the files below the root in the order
\* in which os.walk would yield them if no directory were pruned; a file is
\* visited when no directory on its way was pruned.
discover_code_files(tree, include_ext, exclude_ext, exclude_files) ==
  LET cli_include_extensions == _normalize_extensions(include_ext)
      current_include_extensions ==
        IF cli_include_extensions # {} THEN cli_include_extensions
        ELSE DEFAULT_RELEVANT_EXTENSIONS
      current_excluded_extensions ==
        DEFAULT_EXCLUDED_EXTENSIONS \cup _normalize_extensions(exclude_ext)
      current_excluded_filenames_patterns ==
        DEFAULT_EXCLUDED_FILENAMES_PATTERNS \cup _normalize_patterns(exclude_files)
      Visited(file_path) ==
        \A n \in 1..(Len(file_path) - 1) :
          ~_should_prune_dir(file_path[n], current_excluded_filenames_patterns)
      is_relevant(file_path) ==
        IF cli_include_extensions # {}
          THEN \/ Lower(Suffix(file_path)) \in current_include_extensions
               \/ Lower(Name(file_path)) \in current_include_extensions
        ELSE IF current_include_extensions # {}
          THEN \/ Lower(Suffix(file_path)) \in current_include_extensions
               \/ Lower(Name(file_path)) \in current_include_extensions
        ELSE TRUE
      Kept(file_path) ==
        /\ Visited(file_path)
        /\ ~is_excluded(file_path, current_excluded_extensions,
                        current_excluded_filenames_patterns)
        /\ is_relevant(file_path)
  IN SelectSeq(tree, Kept)

\* ------------------------------------------------------------ input domains
\* the keywords of the review loop
KwDone == <<"d","o","n","e">>
KwCancel == <<"c","a","n","c","e","l">>
KwExclude == <<"e","x","c","l","u","d","e">>
KwList == <<"l","i","s","t">>
KwAll == <<"a","l","l">>
KwNone == <<"n","o","n","e">>

\* The files a discovery can return: a.py, d/b.PY and c.js.
FilePaths == { <<<<"a",".","p","y">>>>, <<<<"d">>, <<"b",".","P","Y">>>>, <<<<"c",".","j","s">>>> }

RECURSIVE ListsUpTo(_)
\* the duplicate-free lists of at most n paths, in any order
ListsUpTo(n) ==
  IF n = 0 THEN {<<>>}
  ELSE LET shorter == ListsUpTo(n - 1)
       IN shorter \cup {Append(l, p) : l \in {m \in shorter : Len(m) = n - 1},
                                       p \in FilePaths}

NoDuplicates(l) == \A a, b \in 1..Len(l) : a # b => l[a] # l[b]

CandidateLists == {l \in ListsUpTo(MaxFiles) : NoDuplicates(l)}

\* The files of the scanned tree, in the order of a top-down walk: a.py,
\* A.PYC, Dockerfile, .env, Build/c.js, node_modules/b.js and src/d/b.PY.
TreeFiles ==
  << <<<<"a",".","p","y">>>>, <<<<"A",".","P","Y","C">>>>, <<<<"D","o","c","k","e","r","f","i","l","e">>>>, <<<<".","e","n","v">>>>,
     <<<<"B","u","i","l","d">>, <<"c",".","j","s">>>>, <<<<"n","o","d","e","_","m","o","d","u","l","e","s">>, <<"b",".","j","s">>>>,
     <<<<"s","r","c">>, <<"d">>, <<"b",".","P","Y">>>> >>

\* the files of the tree whose place in TreeFiles is in `present`
TreeOf(present) ==
  LET upTo[n \in 0..Len(TreeFiles)] ==
        IF n = 0 THEN <<>>
        ELSE IF n \in present THEN Append(upTo[n - 1], TreeFiles[n]) ELSE upTo[n - 1]
  IN upTo[Len(TreeFiles)]

Trees == {TreeOf(present) : present \in SUBSET (1..Len(TreeFiles))}

\* --include-extensions as argparse hands it over (cut at the commas, each
\* item stripped): absent; .py,.js,Dockerfile; pyc,py; and an empty string
IncludeLists ==
  { <<>>, <<<<".","p","y">>, <<".","j","s">>, <<"D","o","c","k","e","r","f","i","l","e">>>>, <<<<"p","y","c">>, <<"p","y">>>>, <<<<>>>> }

\* --exclude-extensions: absent; py; .JS,..
ExcludeExtLists ==
  { <<>>, <<<<"p","y">>>>, <<<<".","J","S">>, <<".",".">>>> }

\* --exclude-files: absent; Src/; A.PY and an empty item
ExcludeFileLists ==
  { <<>>, <<<<"S","r","c","/">>>>, <<<<"A",".","P","Y">>, <<>>>> }

\* the texts chunk_content is given on its own: every string of a and b
\* up to MaxInputLen characters
ChunkInputs ==
  LET upTo[n \in 0..MaxInputLen] ==
        IF n = 0 THEN {<<>>}
        ELSE upTo[n - 1] \cup {Append(t, c) : t \in {u \in upTo[n - 1] : Len(u) = n - 1},
                                              c \in {"a", "b"}}
  IN upTo[MaxInputLen]

\* the chunk sizes tried on them
ChunkSizes == (0 - 1)..(MaxInputLen + 1)

\* the tokens _normalize_extensions is given on its own: empty, blank, dots
\* only, with and without dots before and after, upper case, padded
Tokens ==
  { <<>>, <<" ">>, <<".">>, <<".",".">>,
    <<"p","y">>, <<".","p","y">>, <<".","P","Y">>, <<"p","y",".">>,
    <<" ","p","y">>, <<".","a",".","b">>, <<".",".","p","y">> }

\* the token lists: none, one token, two tokens
TokenLists == {<<>>} \cup {<<t>> : t \in Tokens} \cup {<<t, u>> : t, u \in Tokens}

\* The lines the user types at "Your choice: ", as typed (before strip and
\* lower).  A step of the review loop reads one of them, named by its place
\* in this list.
InputLines ==
  << <<>>, <<" ">>, <<"d","o","n","e">>, <<" ","D","O","N","E">>, <<"c","a","n","c","e","l">>, <<"l","i","s","t">>, <<"a","l","l">>, <<"n","o","n","e">>, <<"N","o","n","e"," ">>,
    <<"e","x","c","l","u","d","e">>, <<"e","x","c","l","u","d","e"," ",".","p","y">>, <<"e","x","c","l","u","d","e"," ","P","Y">>, <<"e","x","c","l","u","d","e"," ","j","s">>, <<"e","x","c","l","u","d","e"," ",".",".">>,
    <<"e","x","c","l","u","d","e"," ",".","z","z"," ",".","p","y">>, <<"e","x","c","l","u","d","e"," "," ",".","p","y","."," ",".",".">>, <<"e","x","c","l","u","d","e","d">>,
    <<"1">>, <<"2">>, <<"1"," ","2">>, <<"2"," ","2">>, <<"0"," ","1">>, <<"-","1">>, <<"+","1"," ","3">>, <<"1"," ","x">>, <<"x">>, <<"d","o","n","e"," ","1">>, <<"1",".","5">> >>

Lines == 1..Len(InputLines)

\* ------------------------------------------------------------------- state
VARIABLES
  pc,                     \* where main (or the selector it calls) stands
  status,                 \* <<>> while running, <<code>> once main returned
  max_total_chars,        \* args.max_total_chars
  chunk_size,             \* args.chunk_size
  tree,                   \* the files below the scan root, in walk order
  include_ext_cli,        \* args.include_extensions
  exclude_ext_cli,        \* args.exclude_extensions
  exclude_files_cli,      \* args.exclude_files
  file_content,           \* the text handed to chunk_content
  extensions,             \* the tokens handed to _normalize_extensions
  normalized,             \* what _normalize_extensions returned for them
  initial,                \* initially_discovered_files / initial_discovered_files
  exclusions,             \* current_interactive_exclusions
  selectable,             \* selectable_files
  selState,               \* IDLE, REVIEWING, CONFIRMED or CANCELLED
  files_to_scan,          \* the selector's return value: None or a list
  i,                      \* index (from 1) of the file of the scan loop
  code_chunks,            \* the chunks of the file being analysed
  chunk_idx,              \* index (from 1) of the chunk of the chunk loop
  total_chars_processed,
  all_llm_findings,
  reads,                  \* history: calls of read_text
  calls,                  \* history: calls of analyze_code_with_llm
  reportWritten,          \* generate_report has run
  md_full_content,        \* what generate_report writes to the .md file
  txt_full_content,       \* what generate_report writes to the .txt file
  lastStep,               \* history: what the last step did
  content_len             \* content_len: the length of the last non-blank file read

selVars == <<initial, exclusions, selectable, selState, files_to_scan>>
\* what discover_code_files and chunk_content are given when they are
\* followed on their own
fnVars == <<tree, include_ext_cli, exclude_ext_cli, exclude_files_cli, file_content,
           extensions, normalized>>
argVars == <<max_total_chars, chunk_size, fnVars>>
reportVars == <<reportWritten, md_full_content, txt_full_content>>
scanVars == <<i, code_chunks, chunk_idx, total_chars_processed, all_llm_findings,
              reads, calls, reportVars, content_len>>
vars == <<pc, status, argVars, selVars, scanVars, lastStep>>

\* Optional[List[Path]]
None == [isNone |-> TRUE, files |-> <<>>]
Some(l) == [isNone |-> FALSE, files |-> l]

\* -------------------------------------------------------- the selector
\* mutant: the suffix compared without lower()
_rebuild_selectable_list_noLower(all_discovered_files, current_interactive_exclusions) ==
  LET Shown(p) == Suffix(p) \notin current_interactive_exclusions
      filtered_for_display == SelectSeq(all_discovered_files, Shown)
  IN [n \in 1..Len(filtered_for_display) |->
        [id |-> n, path_obj |-> filtered_for_display[n], selected |-> TRUE]]

\* mutant: the entries keep the position they had in the original list as id
_rebuild_selectable_list_origIds(all_discovered_files, current_interactive_exclusions) ==
  LET Shown(p) == Lower(Suffix(p)) \notin current_interactive_exclusions
      filtered_for_display == SelectSeq(all_discovered_files, Shown)
      Position(p) == CHOOSE m \in 1..Len(all_discovered_files) : all_discovered_files[m] = p
  IN [n \in 1..Len(filtered_for_display) |->
        [id |-> Position(filtered_for_display[n]),
         path_obj |-> filtered_for_display[n], selected |-> TRUE]]

\* _rebuild_selectable_list: the entries of the files whose lowercased suffix
\* is not excluded, numbered from 1 and all selected
_rebuild_selectable_list(all_discovered_files, current_interactive_exclusions) ==
  LET Shown(p) == Lower(Suffix(p)) \notin current_interactive_exclusions
      filtered_for_display == SelectSeq(all_discovered_files, Shown)
  IN [n \in 1..Len(filtered_for_display) |->
        [id |-> n, path_obj |-> filtered_for_display[n], selected |-> TRUE]]

\* input("Your choice: ").strip().lower()
UserInput(line) == Lower(Strip(line))

\* mutant: only `done` leaves the loop, empty input does not
Branch_noEmpty(line) ==
  LET user_input == UserInput(line)
  IN IF user_input = KwDone THEN "done"
     ELSE IF user_input = KwCancel THEN "cancel"
     ELSE IF StartsWith(user_input, KwExclude \o <<" ">>) THEN "exclude"
     ELSE IF user_input = KwList THEN "list"
     ELSE IF user_input = KwAll THEN "all"
     ELSE IF user_input = KwNone THEN "none"
     ELSE "toggle"

\* The branch of the review loop a line takes, in the order the code tests.
Branch(line) ==
  LET user_input == UserInput(line)
  IN IF user_input = <<>> \/ user_input = KwDone THEN "done"
     ELSE IF user_input = KwCancel THEN "cancel"
     ELSE IF StartsWith(user_input, KwExclude \o <<" ">>) THEN "exclude"
     ELSE IF user_input = KwList THEN "list"
     ELSE IF user_input = KwAll THEN "all"
     ELSE IF user_input = KwNone THEN "none"
     ELSE "toggle"

BranchOf == [k \in Lines |-> Branch(InputLines[k])]

PartsOf == [k \in Lines |-> Split(UserInput(InputLines[k]))]

\* final_selected_files
SelectedPaths(entries) ==
  LET IsSelected(f_info) == f_info.selected
      chosen == SelectSeq(entries, IsSelected)
  IN [n \in 1..Len(chosen) |-> chosen[n].path_obj]

\* the call of review_and_filter_files_interactive, up to its first prompt
ReviewCall ==
  /\ pc = "review_call"
  /\ IF initial = <<>>
       THEN /\ files_to_scan' = Some(<<>>)
            /\ selState' = "CONFIRMED"
            /\ pc' = "returned"
            /\ lastStep' = "short_circuit"
            /\ UNCHANGED <<exclusions, selectable>>
       ELSE LET rebuilt == _rebuild_selectable_list(initial, {})
            IN /\ exclusions' = {}
               /\ selectable' = rebuilt
               /\ IF rebuilt = <<>>
                    THEN /\ files_to_scan' = Some(<<>>)
                         /\ selState' = "CONFIRMED"
                         /\ pc' = "returned"
                    ELSE /\ selState' = "REVIEWING"
                         /\ pc' = "prompt"
                         /\ UNCHANGED files_to_scan
               /\ lastStep' = "call"
  /\ UNCHANGED <<status, argVars, initial, scanVars>>

\* Ctrl+C at the prompt
Interrupt ==
  /\ pc = "prompt"
  /\ files_to_scan' = None
  /\ selState' = "CANCELLED"
  /\ pc' = "returned"
  /\ lastStep' = "interrupt"
  /\ UNCHANGED <<status, argVars, initial, exclusions, selectable, scanVars>>

\* mutant: `done` returning every listed path, selected or not
CmdDone_all(k) ==
  /\ pc = "prompt"
  /\ BranchOf[k] = "done"
  /\ files_to_scan' = Some([n \in 1..Len(selectable) |-> selectable[n].path_obj])
  /\ selState' = "CONFIRMED"
  /\ pc' = "returned"
  /\ lastStep' = "done"
  /\ UNCHANGED <<status, argVars, initial, exclusions, selectable, scanVars>>

\* empty input or `done`: leave the loop and return the selected paths
CmdDone(k) ==
  /\ pc = "prompt"
  /\ BranchOf[k] = "done"
  /\ files_to_scan' = Some(SelectedPaths(selectable))
  /\ selState' = "CONFIRMED"
  /\ pc' = "returned"
  /\ lastStep' = "done"
  /\ UNCHANGED <<status, argVars, initial, exclusions, selectable, scanVars>>

\* mutant: `cancel` leaving the loop with `break` instead of `return None`
CmdCancel_break(k) ==
  /\ pc = "prompt"
  /\ BranchOf[k] = "cancel"
  /\ files_to_scan' = Some(SelectedPaths(selectable))
  /\ selState' = "CANCELLED"
  /\ pc' = "returned"
  /\ lastStep' = "cancel"
  /\ UNCHANGED <<status, argVars, initial, exclusions, selectable, scanVars>>

\* `cancel`
CmdCancel(k) ==
  /\ pc = "prompt"
  /\ BranchOf[k] = "cancel"
  /\ files_to_scan' = None
  /\ selState' = "CANCELLED"
  /\ pc' = "returned"
  /\ lastStep' = "cancel"
  /\ UNCHANGED <<status, argVars, initial, exclusions, selectable, scanVars>>

\* mutant: the list rebuilt only when the new extensions remove a file
CmdExclude_keepFlags(k) ==
  /\ pc = "prompt"
  /\ BranchOf[k] = "exclude"
  /\ LET parts == PartsOf[k]
     IN IF Len(parts) > 1
          THEN LET extensions_to_exclude == _normalize_extensions(Tail(parts))
                   newly_excluded == extensions_to_exclude \ exclusions
                   rebuilt == _rebuild_selectable_list(initial, exclusions')
               IN /\ exclusions' = exclusions \cup extensions_to_exclude
                  /\ IF Cardinality(newly_excluded) > 0 /\ Len(rebuilt) # Len(selectable)
                       THEN /\ selectable' = rebuilt
                            /\ lastStep' =
                                 IF \E n \in 1..Len(selectable) : ~selectable[n].selected
                                   THEN "exclude_reset" ELSE "exclude_rebuild"
                       ELSE /\ selectable' = selectable
                            /\ lastStep' = "exclude_noop"
          ELSE /\ lastStep' = "exclude_usage"
               /\ UNCHANGED <<exclusions, selectable>>
  /\ UNCHANGED <<pc, status, argVars, initial, selState, files_to_scan, scanVars>>

\* `exclude <ext> ...`
CmdExclude(k) ==
  /\ pc = "prompt"
  /\ BranchOf[k] = "exclude"
  /\ LET parts == PartsOf[k]
     IN IF Len(parts) > 1
          THEN LET extensions_to_exclude == _normalize_extensions(Tail(parts))
                   newly_excluded == extensions_to_exclude \ exclusions
               IN /\ exclusions' = exclusions \cup extensions_to_exclude
                  /\ IF Cardinality(newly_excluded) > 0
                       THEN /\ selectable' =
                                 _rebuild_selectable_list(initial, exclusions')
                            /\ lastStep' =
                                 IF \E n \in 1..Len(selectable) : ~selectable[n].selected
                                   THEN "exclude_reset" ELSE "exclude_rebuild"
                       ELSE /\ selectable' = selectable
                            /\ lastStep' = "exclude_noop"
          ELSE /\ lastStep' = "exclude_usage"
               /\ UNCHANGED <<exclusions, selectable>>
  /\ UNCHANGED <<pc, status, argVars, initial, selState, files_to_scan, scanVars>>

\* `list`: prints only
CmdList(k) ==
  /\ pc = "prompt"
  /\ BranchOf[k] = "list"
  /\ lastStep' = "list"
  /\ UNCHANGED <<pc, status, argVars, selVars, scanVars>>

\* `all`
CmdAll(k) ==
  /\ pc = "prompt"
  /\ BranchOf[k] = "all"
  /\ selectable' = [n \in 1..Len(selectable) |-> [selectable[n] EXCEPT !.selected = TRUE]]
  /\ lastStep' = "all"
  /\ UNCHANGED <<pc, status, argVars, initial, exclusions, selState, files_to_scan, scanVars>>

\* mutant: `none` sparing the first entry
CmdNone_skipFirst(k) ==
  /\ pc = "prompt"
  /\ BranchOf[k] = "none"
  /\ selectable' = [n \in 1..Len(selectable) |->
                      IF n = 1 THEN selectable[n] ELSE [selectable[n] EXCEPT !.selected = FALSE]]
  /\ lastStep' = "none"
  /\ UNCHANGED <<pc, status, argVars, initial, exclusions, selState, files_to_scan, scanVars>>

\* `none`
CmdNone(k) ==
  /\ pc = "prompt"
  /\ BranchOf[k] = "none"
  /\ selectable' = [n \in 1..Len(selectable) |-> [selectable[n] EXCEPT !.selected = FALSE]]
  /\ lastStep' = "none"
  /\ UNCHANGED <<pc, status, argVars, initial, exclusions, selState, files_to_scan, scanVars>>

\* mutant: one flip for each token, so that an id given twice flips twice
CmdToggle_perToken(k) ==
  /\ pc = "prompt"
  /\ BranchOf[k] = "toggle"
  /\ LET tokens == PartsOf[k]
     IN IF \A n \in 1..Len(tokens) : IsInt(tokens[n])
          THEN LET Times(id) == Cardinality({t \in 1..Len(tokens) : IntVal(tokens[t]) = id})
               IN /\ selectable' =
                       [n \in 1..Len(selectable) |->
                          IF Times(selectable[n].id) % 2 = 1
                            THEN [selectable[n] EXCEPT !.selected = ~selectable[n].selected]
                            ELSE selectable[n]]
                  /\ lastStep' = "toggle"
          ELSE /\ selectable' = selectable
               /\ lastStep' = "invalid"
  /\ UNCHANGED <<pc, status, argVars, initial, exclusions, selState, files_to_scan, scanVars>>

\* mutant: the ids before the first bad token are flipped before the error
CmdToggle_partial(k) ==
  /\ pc = "prompt"
  /\ BranchOf[k] = "toggle"
  /\ LET tokens == PartsOf[k]
         Good(t) == \A u \in 1..t : IsInt(tokens[u])
         ids_to_toggle == {IntVal(tokens[t]) : t \in {u \in 1..Len(tokens) : Good(u)}}
     IN /\ selectable' =
             [n \in 1..Len(selectable) |->
                IF selectable[n].id \in ids_to_toggle
                  THEN [selectable[n] EXCEPT !.selected = ~selectable[n].selected]
                  ELSE selectable[n]]
        /\ lastStep' = IF \A n \in 1..Len(tokens) : IsInt(tokens[n]) THEN "toggle" ELSE "invalid"
  /\ UNCHANGED <<pc, status, argVars, initial, exclusions, selState, files_to_scan, scanVars>>

\* anything else: the numbers to toggle, or ValueError and the usage message
CmdToggle(k) ==
  /\ pc = "prompt"
  /\ BranchOf[k] = "toggle"
  /\ LET tokens == PartsOf[k]
     IN IF \A n \in 1..Len(tokens) : IsInt(tokens[n])
          THEN LET ids_to_toggle == {IntVal(tokens[n]) : n \in 1..Len(tokens)}
               IN /\ selectable' =
                       [n \in 1..Len(selectable) |->
                          IF selectable[n].id \in ids_to_toggle
                            THEN [selectable[n] EXCEPT !.selected = ~selectable[n].selected]
                            ELSE selectable[n]]
                  /\ lastStep' = "toggle"
          ELSE /\ selectable' = selectable
               /\ lastStep' = "invalid"
  /\ UNCHANGED <<pc, status, argVars, initial, exclusions, selState, files_to_scan, scanVars>>

\* line k read at the prompt and handled by the branch it takes
InputLine(k) ==
  LET branch == BranchOf[k]
  IN CASE branch = "done" -> CmdDone(k)
       [] branch = "cancel" -> CmdCancel(k)
       [] branch = "exclude" -> CmdExclude(k)
       [] branch = "list" -> CmdList(k)
       [] branch = "all" -> CmdAll(k)
       [] branch = "none" -> CmdNone(k)
       [] OTHER -> CmdToggle(k)

\* The selector called on its own with any list of discovered files.
InitSel ==
  /\ pc = "review_call"
  /\ status = <<>>
  /\ max_total_chars = 0
  /\ chunk_size = 0
  /\ tree = <<>>
  /\ include_ext_cli = <<>>
  /\ exclude_ext_cli = <<>>
  /\ exclude_files_cli = <<>>
  /\ file_content = <<>>
  /\ extensions = <<>>
  /\ normalized = {}
  /\ initial \in CandidateLists
  /\ exclusions = {}
  /\ selectable = <<>>
  /\ selState = "IDLE"
  /\ files_to_scan = None
  /\ i = 0
  /\ code_chunks = <<>>
  /\ chunk_idx = 0
  /\ total_chars_processed = 0
  /\ all_llm_findings = <<>>
  /\ reads = 0
  /\ calls = 0
  /\ reportWritten = FALSE
  /\ md_full_content = <<>>
  /\ txt_full_content = <<>>
  /\ lastStep = "none"
  /\ content_len = 0

NextSel ==
  \/ ReviewCall
  \/ Interrupt
  \/ \E k \in Lines : CmdDone(k)
  \/ \E k \in Lines : CmdCancel(k)
  \/ \E k \in Lines : CmdExclude(k)
  \/ \E k \in Lines : CmdList(k)
  \/ \E k \in Lines : CmdAll(k)
  \/ \E k \in Lines : CmdNone(k)
  \/ \E k \in Lines : CmdToggle(k)

SpecSel == InitSel /\ [][NextSel]_vars


\* ----------------------------------------------------------- the scan driver
\* The (budget, chunk size) pairs of the command line: no limit and no
\* chunking, a limit below the chunk size, limits the short contents reach
\* with chunks of one character, and a limit of 100 with chunks of 60.
Configs ==
  { [max_total_chars |-> 0,   chunk_size |-> -1],
    [max_total_chars |-> 1,   chunk_size |-> 2],
    [max_total_chars |-> 2,   chunk_size |-> 1],
    [max_total_chars |-> 3,   chunk_size |-> 1],
    [max_total_chars |-> 100, chunk_size |-> 60] }

\* n copies of the character c
Rep(c, n) == [k \in 1..n |-> c]

RECURSIVE StringsUpTo(_)
\* the strings of at most n characters over "x" and the blank
StringsUpTo(n) ==
  IF n = 0 THEN {<<>>}
  ELSE LET shorter == StringsUpTo(n - 1)
       IN shorter \cup {Append(s, c) : s \in {t \in shorter : Len(t) = n - 1},
                                       c \in {"x", " "}}

\* What read_text can return: the short contents, and a file of 180
\* characters.
Contents == StringsUpTo(MaxContentLen) \cup {Rep("x", 180)}

\* str.__contains__: `pat` occurs in `text`
Contains(text, pat) ==
  \E k \in 0..(Len(text) - Len(pat)) : SubSeq(text, k + 1, k + Len(pat)) = pat

\* what stands in the messages for the file shown, for the reason of a block
\* and for the text of an exception
FilePlaceholder == <<"f">>
ReasonPlaceholder == <<"r">>
ExceptionPlaceholder == <<"e">>

\* response.text of an analysis that found something, "SQL Injection"
FindingText == <<"S","Q","L"," ","I","n","j","e","c","t","i","o","n">>

\* response.text of an analysis that found nothing, the sentence the prompt
\* asks for
NoVulnsText ==
  <<
    "N","o"," ","c","r","i","t","i","c","a","l"," ","s","e","c","u","r","i","t","y"," ","v","u",
    "l","n","e","r","a","b","i","l","i","t","i","e","s"," ","i","d","e","n","t","i","f","i","e",
    "d"," ","i","n"," ","t","h","i","s"," ","s","n","i","p","p","e","t","." >>

\* What the call of the model can do: block the content, send no part, send
\* a text, or raise.
ApiOutcomes ==
  { <<"blocked">>, <<"empty">>, <<"raise">>,
    <<"text", FindingText>>, <<"text", NoVulnsText>>, <<"text", <<>> >> }

\* analyze_code_with_llm, by what the call of the model did
analyze_code_with_llm(outcome) ==
  CASE outcome[1] = "blocked" ->
         <<
           "E","r","r","o","r",":"," ","C","o","n","t","e","n","t"," ","g","e","n","e","r","a",
           "t","i","o","n"," ","b","l","o","c","k","e","d"," ","f","o","r"," " >> \o FilePlaceholder
           \o <<"."," ","R","e","a","s","o","n",":"," ">> \o ReasonPlaceholder
    [] outcome[1] = "empty" ->
         <<
           "E","r","r","o","r",":"," ","R","e","c","e","i","v","e","d"," ","a","n"," ","e","m",
           "p","t","y"," ","r","e","s","p","o","n","s","e"," ","f","r","o","m"," ","G","e","m",
           "i","n","i"," ","f","o","r"," " >>
           \o FilePlaceholder \o <<".">>
    [] outcome[1] = "raise" ->
         <<
           "E","r","r","o","r"," ","d","u","r","i","n","g"," ","L","L","M"," ","A","P","I"," ",
           "c","a","l","l"," ","f","o","r"," " >> \o FilePlaceholder
           \o <<":", " ">> \o ExceptionPlaceholder
    [] OTHER -> outcome[2]

\* What analyze_code_with_llm returns in the scan loop: a failure, a finding
\* and an empty text.
Responses ==
  { analyze_code_with_llm(<<"blocked">>),
    analyze_code_with_llm(<<"text", FindingText>>),
    analyze_code_with_llm(<<"text", <<>> >>) }

\* the finding of a file that cannot be read
ReadErrorFinding ==
  <<
    "E","r","r","o","r",":"," ","C","o","u","l","d"," ","n","o","t"," ","r","e","a","d"," ","f",
    "i","l","e"," " >> \o FilePlaceholder
    \o <<"."," ","R","e","a","s","o","n",":"," ">> \o ExceptionPlaceholder

\* mutant: only the empty string counts as blank
IsBlank_emptyOnly(s) == s = <<>>

\* not s.strip()
IsBlank(s) == Strip(s) = <<>>

Min(a, b) == IF a < b THEN a ELSE b

\* mutant: the shorter last window is dropped
chunk_content_dropTail(content, chunk_size_chars) ==
  IF chunk_size_chars <= 0 THEN <<content>>
  ELSE [k \in 1..(Len(content) \div chunk_size_chars) |->
          SubSeq(content, (k - 1) * chunk_size_chars + 1, k * chunk_size_chars)]

\* chunk_content: content[i:i + chunk_size_chars] for each i of
\* range(0, len(content), chunk_size_chars), a slice ending at the end of the
\* content when it would run past it
chunk_content(content, chunk_size_chars) ==
  IF chunk_size_chars <= 0 THEN <<content>>
  ELSE LET starts == {s \in 0..(Len(content) - 1) : s % chunk_size_chars = 0}
       IN [k \in 1..Cardinality(starts) |->
             LET start == (k - 1) * chunk_size_chars
             IN SubSeq(content, start + 1, Min(start + chunk_size_chars, Len(content)))]

RECURSIVE Concat(_)
\* the strings of a list joined in order
Concat(parts) == IF parts = <<>> THEN <<>> ELSE Head(parts) \o Concat(Tail(parts))

\* ------------------------------------------------------------ the report
\* the marker of a failed analysis and the words of an analysis that found
\* nothing, as generate_report looks for them
ErrorMarker == <<"E","r","r","o","r",":">>
NoVulnsMarker ==
  <<
    "N","o"," ","c","r","i","t","i","c","a","l"," ","s","e","c","u","r","i","t","y"," ","v","u",
    "l","n","e","r","a","b","i","l","i","t","i","e","s"," ","i","d","e","n","t","i","f","i","e",
    "d" >>

\* what stands for datetime.now() in the title
TimestampPlaceholder == <<"T">>

report_title == <<"S","e","c","r","e","v"," ","R","e","p","o","r","t"," ","-"," ">> \o TimestampPlaceholder

disclaimer ==
  <<
    "T","h","i","s"," ","r","e","p","o","r","t"," ","w","a","s"," ","g","e","n","e","r","a","t",
    "e","d"," ","b","y"," ","a","n"," ","A","I","-","a","s","s","i","s","t","e","d"," ","s","e",
    "c","u","r","i","t","y"," ","r","e","v","i","e","w"," ","t","o","o","l"," ","(","S","e","c",
    "r","e","v",")","."," ","T","h","e"," ","f","i","n","d","i","n","g","s"," ","a","r","e"," ",
    "p","o","t","e","n","t","i","a","l"," ","v","u","l","n","e","r","a","b","i","l","i","t","i",
    "e","s"," ","a","n","d"," ","*","*","r","e","q","u","i","r","e"," ","h","u","m","a","n"," ",
    "v","e","r","i","f","i","c","a","t","i","o","n"," ","a","n","d"," ","c","o","n","t","e","x",
    "t","u","a","l"," ","u","n","d","e","r","s","t","a","n","d","i","n","g",".","*","*"," ","T",
    "h","i","s"," ","t","o","o","l"," ","i","s"," ","a","n"," ","a","i","d"," ","a","n","d"," ",
    "n","o","t"," ","a"," ","r","e","p","l","a","c","e","m","e","n","t"," ","f","o","r"," ","t",
    "h","o","r","o","u","g","h"," ","m","a","n","u","a","l"," ","c","o","d","e"," ","r","e","v",
    "i","e","w",","," ","d","e","d","i","c","a","t","e","d"," ","S","A","S","T","/","D","A","S",
    "T"," ","t","o","o","l","s",","," ","o","r"," ","p","r","o","f","e","s","s","i","o","n","a",
    "l"," ","s","e","c","u","r","i","t","y"," ","a","u","d","i","t","s","." >>

\* the message of a scan without findings
NoFindingsMsg ==
  <<
    "N","o"," ","p","o","t","e","n","t","i","a","l"," ","v","u","l","n","e","r","a","b","i","l",
    "i","t","i","e","s"," ","w","e","r","e"," ","r","e","p","o","r","t","e","d"," ","b","y"," ",
    "t","h","e"," ","L","L","M"," ","a","c","r","o","s","s"," ","t","h","e"," ","s","c","a","n",
    "n","e","d"," ","f","i","l","e","s",".","\n" >>

\* the message of a scan whose findings hold nothing to act on
NothingCriticalMsg ==
  <<
    "T","h","e"," ","L","L","M"," ","r","e","v","i","e","w","e","d"," ","t","h","e"," ","c","o",
    "n","t","e","n","t"," ","b","u","t"," ","d","i","d"," ","n","o","t"," ","i","d","e","n","t",
    "i","f","y"," ","a","n","y"," ","c","r","i","t","i","c","a","l"," ","s","e","c","u","r","i",
    "t","y"," ","v","u","l","n","e","r","a","b","i","l","i","t","i","e","s",".","\n" >>

\* "=" * 20 and the rule above a finding of the text report
Rule20 == [n \in 1..20 |-> "="]
Rule24 == [n \in 1..24 |-> "-"]
MdRule == <<"-","-","-","\n">>

\* the headings of a failed analysis in the two reports
AnalysisIssueMd == <<"*","*","A","n","a","l","y","s","i","s"," ","I","s","s","u","e",":","*","*","\n">>
AnalysisIssueTxt == <<"-","-","-"," ","A","N","A","L","Y","S","I","S"," ","I","S","S","U","E"," ","-","-","-","\n">>

\* mutant: the closing message whenever nothing is actionable
generate_report_always(findings) ==
  LET is_error(f) == Contains(f, ErrorMarker)
      is_no_vulns(f) == Contains(f, NoVulnsMarker)
      md_part(f) ==
        IF ~is_error(f) /\ ~is_no_vulns(f) THEN MdRule \o f \o <<"\n","\n">>
        ELSE IF is_error(f)
          THEN MdRule \o AnalysisIssueMd \o f \o <<"\n","\n">>
        ELSE <<>>
      txt_part(f) ==
        IF ~is_error(f) /\ ~is_no_vulns(f) THEN Rule24 \o <<"\n">> \o f \o <<"\n","\n">>
        ELSE IF is_error(f)
          THEN AnalysisIssueTxt \o f \o <<"\n","\n">>
        ELSE <<>>
      actionable_findings_count ==
        Cardinality({n \in 1..Len(findings) :
                       ~is_error(findings[n]) /\ ~is_no_vulns(findings[n])})
      closing ==
        IF actionable_findings_count = 0 THEN NothingCriticalMsg ELSE <<>>
      md_head == <<"#"," ">> \o report_title \o <<"\n","\n">>
                   \o <<"#","#"," ","D","i","s","c","l","a","i","m","e","r","\n">>
                   \o disclaimer \o <<"\n","\n">>
                   \o <<"#","#"," ","F","i","n","d","i","n","g","s","\n">>
      txt_head == report_title \o <<"\n","\n">>
                    \o <<"D","i","s","c","l","a","i","m","e","r",":","\n">>
                    \o disclaimer \o <<"\n","\n">>
                    \o <<"F","i","n","d","i","n","g","s",":","\n">>
                    \o Rule20 \o <<"\n","\n">>
  IN IF findings = <<>>
       THEN [md |-> md_head \o NoFindingsMsg, txt |-> txt_head \o NoFindingsMsg]
       ELSE [md |-> md_head \o Concat([n \in 1..Len(findings) |-> md_part(findings[n])])
                      \o closing,
             txt |-> txt_head \o Concat([n \in 1..Len(findings) |-> txt_part(findings[n])])
                       \o closing]

\* generate_report: the contents of the Markdown and of the text report
generate_report(findings) ==
  LET is_error(f) == Contains(f, ErrorMarker)
      is_no_vulns(f) == Contains(f, NoVulnsMarker)
      md_part(f) ==
        IF ~is_error(f) /\ ~is_no_vulns(f) THEN MdRule \o f \o <<"\n","\n">>
        ELSE IF is_error(f)
          THEN MdRule \o AnalysisIssueMd \o f \o <<"\n","\n">>
        ELSE <<>>
      txt_part(f) ==
        IF ~is_error(f) /\ ~is_no_vulns(f) THEN Rule24 \o <<"\n">> \o f \o <<"\n","\n">>
        ELSE IF is_error(f)
          THEN AnalysisIssueTxt \o f \o <<"\n","\n">>
        ELSE <<>>
      actionable_findings_count ==
        Cardinality({n \in 1..Len(findings) :
                       ~is_error(findings[n]) /\ ~is_no_vulns(findings[n])})
      closing ==
        IF /\ actionable_findings_count = 0
           /\ \E n \in 1..Len(findings) :
                findings[n] # <<>> /\ ~Contains(findings[n], ErrorMarker)
          THEN NothingCriticalMsg
          ELSE <<>>
      md_head == <<"#"," ">> \o report_title \o <<"\n","\n">>
                   \o <<"#","#"," ","D","i","s","c","l","a","i","m","e","r","\n">>
                   \o disclaimer \o <<"\n","\n">>
                   \o <<"#","#"," ","F","i","n","d","i","n","g","s","\n">>
      txt_head == report_title \o <<"\n","\n">>
                    \o <<"D","i","s","c","l","a","i","m","e","r",":","\n">>
                    \o disclaimer \o <<"\n","\n">>
                    \o <<"F","i","n","d","i","n","g","s",":","\n">>
                    \o Rule20 \o <<"\n","\n">>
  IN IF findings = <<>>
       THEN [md |-> md_head \o NoFindingsMsg, txt |-> txt_head \o NoFindingsMsg]
       ELSE [md |-> md_head \o Concat([n \in 1..Len(findings) |-> md_part(findings[n])])
                      \o closing,
             txt |-> txt_head \o Concat([n \in 1..Len(findings) |-> txt_part(findings[n])])
                       \o closing]

\* mutants of the whole-file check: never skipping, skipping only once some
\* budget is used, and skipping a file that exactly fills the budget
FileOverBudget_never(total, len, max) == FALSE
FileOverBudget_onceUsed(total, len, max) ==
  max > 0 /\ total > 0 /\ total + len > max /\ total < max
FileOverBudget_offByOne(total, len, max) ==
  max > 0 /\ total + len >= max /\ total < max

\* the condition under which main skips a whole file
FileOverBudget(total, len, max) ==
  max > 0 /\ total + len > max /\ total < max

\* mutant: the chunks stop already when one would just reach the budget
ChunkOverBudget_offByOne(total, chunk_len, max) ==
  max > 0 /\ total + chunk_len >= max /\ total < max

\* the condition under which main stops the chunks of a file
ChunkOverBudget(total, chunk_len, max) ==
  max > 0 /\ total + chunk_len > max /\ total < max

\* mutant: the loops are left only once the budget is exceeded
BudgetReached_exceeded(total, max) == max > 0 /\ total > max

\* the condition under which main leaves its loops for the report
BudgetReached(total, max) == max > 0 /\ total >= max

\* The state after argparse: main about to set up and discover.
Init ==
  /\ pc = "start"
  /\ status = <<>>
  /\ \E c \in Configs : max_total_chars = c.max_total_chars /\ chunk_size = c.chunk_size
  \* discovery is taken by its result (Discover) and the chunker by its
  \* call in ReadFile: what they are given on their own is left empty
  /\ tree = <<>>
  /\ include_ext_cli = <<>>
  /\ exclude_ext_cli = <<>>
  /\ exclude_files_cli = <<>>
  /\ file_content = <<>>
  /\ extensions = <<>>
  /\ normalized = {}
  /\ initial = <<>>
  /\ exclusions = {}
  /\ selectable = <<>>
  /\ selState = "IDLE"
  /\ files_to_scan = None
  /\ i = 0
  /\ code_chunks = <<>>
  /\ chunk_idx = 0
  /\ total_chars_processed = 0
  /\ all_llm_findings = <<>>
  /\ reads = 0
  /\ calls = 0
  /\ reportWritten = FALSE
  /\ md_full_content = <<>>
  /\ txt_full_content = <<>>
  /\ lastStep = "none"
  /\ content_len = 0

\* a bad directory, a missing API key or a failing genai.configure
SetupError ==
  /\ pc = "start"
  /\ pc' = "exit"
  /\ status' = <<1>>
  /\ lastStep' = "setup_error"
  /\ UNCHANGED <<argVars, selVars, scanVars>>

\* discover_code_files returned `files`; main returns, takes them all
\* (args.yes) or calls the selector
Discover(files, yes) ==
  /\ pc = "start"
  /\ initial' = files
  /\ lastStep' = "discover"
  /\ IF files = <<>>
       THEN /\ pc' = "exit"
            /\ status' = <<0>>
            /\ UNCHANGED files_to_scan
       ELSE IF yes
         THEN /\ files_to_scan' = Some(files)
              /\ pc' = "returned"
              /\ UNCHANGED status
         ELSE /\ pc' = "review_call"
              /\ UNCHANGED <<status, files_to_scan>>
  /\ UNCHANGED <<argVars, exclusions, selectable, selState, scanVars>>

\* main after files_to_scan is known: return 0 or enter the file loop.  The
\* selector's locals are gone and main never reads the discovered list again.
AfterReview ==
  /\ pc = "returned"
  /\ lastStep' = "after_review"
  /\ initial' = <<>>
  /\ exclusions' = {}
  /\ selectable' = <<>>
  /\ IF files_to_scan.isNone \/ files_to_scan.files = <<>>
       THEN /\ pc' = "exit"
            /\ status' = <<0>>
            /\ UNCHANGED <<i, total_chars_processed, all_llm_findings>>
       ELSE /\ pc' = "file"
            /\ i' = 1
            /\ total_chars_processed' = 0
            /\ all_llm_findings' = <<>>
            /\ UNCHANGED status
  /\ UNCHANGED <<argVars, selState, files_to_scan, code_chunks, chunk_idx, reads,
                 calls, reportVars, content_len>>

\* the next iteration of `for i, file_path in enumerate(files_to_scan)`, or
\* the report when the list is exhausted
\* mutant: whatever ends a file ends the scan
NextFilePc_stop == "report"
NextFilePc == IF i < Len(files_to_scan.files) THEN "file" ELSE "report"
NextFileI == IF i < Len(files_to_scan.files) THEN i + 1 ELSE i

\* mutant: the file loop without its `break`
AfterChunksPc_noBreak(total) == NextFilePc

\* the end of the body of the file loop once the chunk loop is over
\* (`if ... total_chars_processed >= args.max_total_chars: break`)
AfterChunksPc(total) ==
  IF BudgetReached(total, max_total_chars) THEN "report" ELSE NextFilePc
AfterChunksI(total) ==
  IF BudgetReached(total, max_total_chars) THEN i ELSE NextFileI

\* one iteration of the file loop up to the chunk loop: read, skip or chunk.
\* `outcome` is <<"error">> or <<"text", content>>.
ReadFile(outcome) ==
  /\ pc = "file"
  /\ reads' = reads + 1
  /\ IF outcome[1] = "error"
       THEN /\ all_llm_findings' = Append(all_llm_findings, ReadErrorFinding)
            /\ lastStep' = "read_error"
            /\ pc' = NextFilePc
            /\ i' = NextFileI
            /\ UNCHANGED <<code_chunks, chunk_idx, content_len>>
       ELSE LET content == outcome[2]
            IN /\ UNCHANGED all_llm_findings
               /\ IF IsBlank(content)
                    THEN /\ lastStep' = "blank_file"
                         /\ pc' = NextFilePc
                         /\ i' = NextFileI
                         /\ UNCHANGED <<code_chunks, chunk_idx, content_len>>
                    ELSE IF FileOverBudget(total_chars_processed, Len(content),
                                           max_total_chars)
                      THEN /\ lastStep' = "pre_skip"
                           /\ content_len' = Len(content)
                           /\ pc' = NextFilePc
                           /\ i' = NextFileI
                           /\ UNCHANGED <<code_chunks, chunk_idx>>
                      ELSE /\ lastStep' = "chunked"
                           /\ content_len' = Len(content)
                           /\ code_chunks' = chunk_content(content, chunk_size)
                           /\ chunk_idx' = 1
                           /\ pc' = "chunk"
                           /\ UNCHANGED i
  /\ UNCHANGED <<status, argVars, selVars, total_chars_processed, calls, reportVars>>

\* one iteration of the chunk loop, with the loop exits it leads to.
\* `llm_response` is what the analysis returns if the chunk is sent.
ProcessChunk(llm_response) ==
  /\ pc = "chunk"
  /\ LET chunk == code_chunks[chunk_idx]
         chunk_len == Len(chunk)
         last == chunk_idx >= Len(code_chunks)
     IN IF IsBlank(chunk)
          THEN /\ lastStep' = "blank_chunk"
               /\ UNCHANGED <<total_chars_processed, all_llm_findings, calls>>
               /\ IF last
                    THEN /\ pc' = AfterChunksPc(total_chars_processed)
                         /\ i' = AfterChunksI(total_chars_processed)
                         /\ UNCHANGED chunk_idx
                    ELSE /\ chunk_idx' = chunk_idx + 1
                         /\ UNCHANGED <<pc, i>>
          ELSE IF ChunkOverBudget(total_chars_processed, chunk_len, max_total_chars)
            THEN /\ lastStep' = "chunk_stop"
                 /\ pc' = AfterChunksPc(total_chars_processed)
                 /\ i' = AfterChunksI(total_chars_processed)
                 /\ UNCHANGED <<total_chars_processed, all_llm_findings, calls, chunk_idx>>
            ELSE LET total == total_chars_processed + chunk_len
                 IN /\ lastStep' = "sent"
                    /\ calls' = calls + 1
                    /\ all_llm_findings' =
                         IF llm_response # <<>>
                           THEN Append(all_llm_findings, llm_response)
                           ELSE all_llm_findings
                    /\ total_chars_processed' = total
                    /\ IF BudgetReached(total, max_total_chars) \/ last
                         THEN /\ pc' = AfterChunksPc(total)
                              /\ i' = AfterChunksI(total)
                              /\ UNCHANGED chunk_idx
                         ELSE /\ chunk_idx' = chunk_idx + 1
                              /\ UNCHANGED <<pc, i>>
  /\ UNCHANGED <<status, argVars, selVars, code_chunks, reads, reportVars, content_len>>

\* generate_report and the return of main
Report ==
  /\ pc = "report"
  /\ reportWritten' = TRUE
  /\ md_full_content' = generate_report(all_llm_findings).md
  /\ txt_full_content' = generate_report(all_llm_findings).txt
  /\ status' = <<0>>
  /\ pc' = "exit"
  /\ lastStep' = "report"
  /\ UNCHANGED <<argVars, selVars, i, code_chunks, chunk_idx, total_chars_processed,
                 all_llm_findings, reads, calls, content_len>>

Next ==
  \/ SetupError
  \/ \E files \in CandidateLists, yes \in BOOLEAN : Discover(files, yes)
  \/ ReviewCall
  \/ Interrupt
  \/ \E k \in Lines : CmdDone(k)
  \/ \E k \in Lines : CmdCancel(k)
  \/ \E k \in Lines : CmdExclude(k)
  \/ \E k \in Lines : CmdList(k)
  \/ \E k \in Lines : CmdAll(k)
  \/ \E k \in Lines : CmdNone(k)
  \/ \E k \in Lines : CmdToggle(k)
  \/ AfterReview
  \/ \E outcome \in {<<"error">>} \cup {<<"text", c>> : c \in Contents} : ReadFile(outcome)
  \/ \E llm_response \in Responses : ProcessChunk(llm_response)
  \/ Report

Spec == Init /\ [][Next]_vars


\* ------------------------------------------------- discovery on its own
\* the selector and the scan loop before anything has happened
Untouched ==
  /\ status = <<>>
  /\ exclusions = {}
  /\ selectable = <<>>
  /\ selState = "IDLE"
  /\ files_to_scan = None
  /\ i = 0
  /\ chunk_idx = 0
  /\ total_chars_processed = 0
  /\ all_llm_findings = <<>>
  /\ reads = 0
  /\ calls = 0
  /\ reportWritten = FALSE
  /\ md_full_content = <<>>
  /\ txt_full_content = <<>>
  /\ lastStep = "none"
  /\ content_len = 0

\* discover_code_files about to be called on any tree with any filters
InitDisc ==
  /\ pc = "discover_call"
  /\ tree \in Trees
  /\ include_ext_cli \in IncludeLists
  /\ exclude_ext_cli \in ExcludeExtLists
  /\ exclude_files_cli \in ExcludeFileLists
  /\ initial = <<>>
  /\ max_total_chars = 0
  /\ chunk_size = 0
  /\ file_content = <<>>
  /\ extensions = <<>>
  /\ normalized = {}
  /\ code_chunks = <<>>
  /\ Untouched

\* the call of discover_code_files and its return value
DiscoverFiles ==
  /\ pc = "discover_call"
  /\ initial' = discover_code_files(tree, include_ext_cli, exclude_ext_cli, exclude_files_cli)
  /\ pc' = "discovered"
  /\ lastStep' = "discovered"
  /\ UNCHANGED <<status, argVars, exclusions, selectable, selState, files_to_scan, scanVars>>

NextDisc == DiscoverFiles

SpecDisc == InitDisc /\ [][NextDisc]_vars

\* --------------------------------------------- chunk_content on its own
InitChunk ==
  /\ pc = "chunk_call"
  /\ file_content \in ChunkInputs
  /\ extensions = <<>>
  /\ normalized = {}
  /\ chunk_size \in ChunkSizes
  /\ code_chunks = <<>>
  /\ max_total_chars = 0
  /\ tree = <<>>
  /\ include_ext_cli = <<>>
  /\ exclude_ext_cli = <<>>
  /\ exclude_files_cli = <<>>
  /\ initial = <<>>
  /\ Untouched

\* the call chunk_content(content, chunk_size) and its return value
ChunkCall ==
  /\ pc = "chunk_call"
  /\ code_chunks' = chunk_content(file_content, chunk_size)
  /\ pc' = "chunks_returned"
  /\ lastStep' = "chunks_returned"
  /\ UNCHANGED <<status, argVars, selVars, i, chunk_idx, total_chars_processed,
                 all_llm_findings, reads, calls, reportVars, content_len>>

NextChunk == ChunkCall

SpecChunk == InitChunk /\ [][NextChunk]_vars

\* ------------------------------------------- generate_report on its own
\* no finding yet: the list is grown as main grows it, then reported
InitReport ==
  /\ pc = "findings"
  /\ max_total_chars = 0
  /\ chunk_size = 0
  /\ tree = <<>>
  /\ include_ext_cli = <<>>
  /\ exclude_ext_cli = <<>>
  /\ exclude_files_cli = <<>>
  /\ file_content = <<>>
  /\ extensions = <<>>
  /\ normalized = {}
  /\ initial = <<>>
  /\ code_chunks = <<>>
  /\ Untouched

\* a file that cannot be read: its message joins the findings
RecordReadError ==
  /\ pc = "findings"
  /\ Len(all_llm_findings) < MaxFindings
  /\ all_llm_findings' = Append(all_llm_findings, ReadErrorFinding)
  /\ lastStep' = "read_error"
  /\ UNCHANGED <<pc, status, argVars, selVars, i, code_chunks, chunk_idx,
                 total_chars_processed, reads, calls, reportVars, content_len>>

\* a chunk analysed: what analyze_code_with_llm returns joins the findings
\* unless it is empty
RecordAnalysis(outcome) ==
  /\ pc = "findings"
  /\ Len(all_llm_findings) < MaxFindings
  /\ LET llm_response == analyze_code_with_llm(outcome)
     IN all_llm_findings' =
          IF llm_response # <<>> THEN Append(all_llm_findings, llm_response)
          ELSE all_llm_findings
  /\ lastStep' = "sent"
  /\ UNCHANGED <<pc, status, argVars, selVars, i, code_chunks, chunk_idx,
                 total_chars_processed, reads, calls, reportVars, content_len>>

\* the call generate_report(all_llm_findings, ...)
GenerateReport ==
  /\ pc = "findings"
  /\ reportWritten' = TRUE
  /\ md_full_content' = generate_report(all_llm_findings).md
  /\ txt_full_content' = generate_report(all_llm_findings).txt
  /\ pc' = "reported"
  /\ lastStep' = "report"
  /\ UNCHANGED <<status, argVars, selVars, i, code_chunks, chunk_idx,
                 total_chars_processed, all_llm_findings, reads, calls, content_len>>

NextReport ==
  \/ RecordReadError
  \/ \E outcome \in ApiOutcomes : RecordAnalysis(outcome)
  \/ GenerateReport

SpecReport == InitReport /\ [][NextReport]_vars

\* ---------------------------------------- _normalize_extensions on its own
InitNorm ==
  /\ pc = "normalize_call"
  /\ extensions \in TokenLists
  /\ normalized = {}
  /\ max_total_chars = 0
  /\ chunk_size = 0
  /\ tree = <<>>
  /\ include_ext_cli = <<>>
  /\ exclude_ext_cli = <<>>
  /\ exclude_files_cli = <<>>
  /\ file_content = <<>>
  /\ initial = <<>>
  /\ code_chunks = <<>>
  /\ Untouched

\* the call _normalize_extensions(extensions) and its return value
NormalizeCall ==
  /\ pc = "normalize_call"
  /\ normalized' = _normalize_extensions(extensions)
  /\ pc' = "normalized"
  /\ lastStep' = "normalized"
  /\ UNCHANGED <<status, max_total_chars, chunk_size, tree, include_ext_cli,
                 exclude_ext_cli, exclude_files_cli, file_content, extensions,
                 selVars, scanVars>>

NextNorm == NormalizeCall

SpecNorm == InitNorm /\ [][NextNorm]_vars

\* ================================================================== claims
\* The scenario of C1: a budget of 100, chunks of 60, one file to scan whose
\* 180 characters make chunks of 60, 60 and 60, and the scan over.
C1_Scenario ==
  /\ max_total_chars = 100
  /\ chunk_size = 60
  /\ Len(files_to_scan.files) = 1
  /\ content_len = 180
  /\ pc = "report"

\* C1 as stated: in the scenario exactly two chunks are sent.
C1_TwoChunksSent == C1_Scenario => calls = 2

\* C1 as amended: in the scenario no chunk is sent, because the whole-file
\* check skips the file (0 + 180 > 100).
C1_NoChunkSent ==
  C1_Scenario => calls = 0 /\ total_chars_processed = 0 /\ lastStep = "pre_skip"

C1_Witness == C1_Scenario /\ reads = 1

\* a non-blank file has just been read and either skipped or chunked
FileDecided == lastStep \in {"pre_skip", "chunked"}

\* C2 as stated: the whole-file check skips a file only when some budget is
\* already used.
C2_SkipOnlyOnceUsed == lastStep = "pre_skip" => total_chars_processed > 0

\* C2 as amended: a non-blank file is skipped by the whole-file check exactly
\* when the budget is finite and the running total plus the content length
\* exceeds it, whether or not any budget is used.
C2_SkipIffOverBudget ==
  FileDecided =>
    (lastStep = "pre_skip" <=>
       (max_total_chars > 0 /\ total_chars_processed + content_len > max_total_chars))

C2_Witness ==
  lastStep = "pre_skip" /\ total_chars_processed = 0 /\ reads = 1

\* the length of the first chunk of the file last read
FirstChunkLen == IF chunk_size <= 0 THEN content_len ELSE Min(chunk_size, content_len)

\* nothing is sent yet, and the first chunk of the file just read is longer
\* than the finite budget
FirstChunkTooLong ==
  /\ calls = 0
  /\ lastStep \in {"pre_skip", "chunked", "chunk_stop"}
  /\ max_total_chars > 0
  /\ FirstChunkLen > max_total_chars

\* C3 as stated: a first chunk longer than the budget is not withheld; its
\* file passes to the chunk loop and the stop check lets the chunk through.
C3_FirstChunkNotWithheld == FirstChunkTooLong => lastStep = "chunked"

\* C3 as amended: the stop check of the chunk loop does not fire while
\* nothing is sent, but a first chunk longer than the finite budget is
\* withheld all the same: the whole-file check skips its file.
C3_FirstChunkWithheldByFileCheck ==
  /\ calls = 0 => lastStep # "chunk_stop"
  /\ FirstChunkTooLong => lastStep = "pre_skip"

C3_Witness == FirstChunkTooLong /\ chunk_size > 0 /\ content_len > chunk_size

\* C4: once the running total has reached a finite budget, main is at the
\* report or past it: no file is read and no chunk is sent any more, and
\* main returns only with the report written.
C4_BudgetReachedGoesToReport ==
  BudgetReached(total_chars_processed, max_total_chars) =>
    /\ pc \in {"report", "exit"}
    /\ pc = "report" => ENABLED Report
    /\ pc = "exit" => reportWritten /\ status = <<0>>

\* the budget is reached with a file of the list left
C4_Witness ==
  /\ BudgetReached(total_chars_processed, max_total_chars)
  /\ pc = "report"
  /\ i < Len(files_to_scan.files)

\* C5: after CANCELLED no file is read, nothing is analysed, no report is
\* written, and main can only return, with status 0.
C5_CancelledScansNothing ==
  selState = "CANCELLED" =>
    /\ reads = 0
    /\ calls = 0
    /\ ~reportWritten
    /\ pc \in {"returned", "exit"}
    /\ pc = "returned" => ENABLED AfterReview
    /\ pc = "exit" => status = <<0>>

C5_Witness == selState = "CANCELLED" /\ pc = "exit" /\ status = <<0>>


\* the lowercased suffix of a path is interactively excluded
IsExcluded(p, excl) == Lower(Suffix(p)) \in excl

\* C6: every step of a session keeps the extensions already excluded, and
\* after it no listed entry and no path of the CONFIRMED result has an
\* excluded extension.
C6_ExclusionsPermanent ==
  [][/\ exclusions \subseteq exclusions'
     /\ \A n \in 1..Len(selectable') :
          ~IsExcluded(selectable'[n].path_obj, exclusions')
     /\ selState' = "CONFIRMED" =>
          \A n \in 1..Len(files_to_scan'.files) :
            ~IsExcluded(files_to_scan'.files[n], exclusions')]_vars

\* files were excluded, commands followed, and the session was confirmed
C6_Witness ==
  /\ selState = "CONFIRMED"
  /\ lastStep = "done"
  /\ exclusions # {}
  /\ Len(selectable) < Len(initial)
  /\ Len(files_to_scan.files) > 0

\* the arguments of the `exclude` line k
ExcludeArgs(k) == Tail(PartsOf[k])

\* every argument is made of dots only or normalises to an extension that
\* is excluded already
NothingNewToExclude(k) ==
  \A n \in 1..Len(ExcludeArgs(k)) :
    \/ StripDots(ExcludeArgs(k)[n]) = <<>>
    \/ NormalizeOne(ExcludeArgs(k)[n]) \in exclusions

\* C7: an `exclude` whose arguments are all excluded already or malformed
\* changes neither the exclusion set nor the entries.
C7_NothingNewNoRebuild ==
  [][\A k \in Lines :
       (CmdExclude(k) /\ NothingNewToExclude(k)) =>
         UNCHANGED <<exclusions, selectable>>]_vars

\* what C8 expects of a rebuild: the files of the original list whose
\* extension is not in `excl`, in order, numbered from 1, all selected
KeptFiles(excl) ==
  LET Kept(p) == ~IsExcluded(p, excl) IN SelectSeq(initial, Kept)

IsFreshListOf(entries, excl) ==
  /\ Len(entries) = Len(KeptFiles(excl))
  /\ \A n \in 1..Len(entries) :
       /\ entries[n].id = n
       /\ entries[n].path_obj = KeptFiles(excl)[n]
       /\ entries[n].selected

\* C8: a step that grows the exclusion set leaves the list rebuilt from the
\* original candidates and the whole new set, renumbered and all selected.
C8_GrowthRebuilds ==
  [][exclusions' # exclusions => IsFreshListOf(selectable', exclusions')]_vars

\* a deselection was discarded by an exclusion that removed no file
C8_Witness ==
  /\ lastStep = "exclude_reset"
  /\ Len(selectable) = Len(initial)
  /\ \A n \in 1..Len(selectable) : selectable[n].selected

\* the path is listed and selected
IsChosen(p) ==
  \E n \in 1..Len(selectable) : selectable[n].path_obj = p /\ selectable[n].selected

\* C9: the CONFIRMED result of empty input or `done` is the original list
\* cut down to the paths listed and selected at that moment.
C9_DoneReturnsSelected ==
  (selState = "CONFIRMED" /\ lastStep = "done") =>
    /\ ~files_to_scan.isNone
    /\ files_to_scan.files = SelectSeq(initial, IsChosen)

\* confirmed with some entries selected and some not
C9_Witness ==
  /\ selState = "CONFIRMED"
  /\ lastStep = "done"
  /\ Len(files_to_scan.files) > 0
  /\ Len(files_to_scan.files) < Len(selectable)

WordsOf == [k \in Lines |-> Split(Lower(InputLines[k]))]

\* C10: the call goes to REVIEWING and the prompt, or with no candidate
\* straight to CONFIRMED with an empty result; at the prompt, empty input
\* and `done` alone confirm, `cancel` and the interrupt alone cancel, and
\* every other line leaves the selector in REVIEWING at the prompt.
C10_SelectorStateMachine ==
  [][/\ pc = "review_call" =>
          IF initial = <<>>
            THEN selState' = "CONFIRMED" /\ files_to_scan' = Some(<<>>) /\ pc' = "returned"
            ELSE selState' = "REVIEWING" /\ pc' = "prompt"
     /\ pc = "prompt" =>
          /\ selState = "REVIEWING"
          /\ Interrupt => selState' = "CANCELLED" /\ pc' = "returned"
          /\ \A k \in Lines :
               InputLine(k) =>
                 IF WordsOf[k] \in {<<>>, <<KwDone>>}
                   THEN selState' = "CONFIRMED" /\ pc' = "returned"
                 ELSE IF WordsOf[k] = <<KwCancel>>
                   THEN selState' = "CANCELLED" /\ pc' = "returned"
                 ELSE selState' = "REVIEWING" /\ pc' = "prompt"]_vars

\* the selector called with no candidate
C10_Witness ==
  /\ initial = <<>>
  /\ selState = "CONFIRMED"
  /\ pc = "returned"
  /\ files_to_scan = Some(<<>>)

\* C11: a `none` that follows an `all` leaves every listed entry deselected,
\* whatever came before, and a `done` that follows a `none` confirms with no
\* file.
C11_AllNoneDeselects ==
  [][/\ (lastStep = "all" /\ lastStep' = "none") =>
          /\ Len(selectable') = Len(selectable)
          /\ \A n \in 1..Len(selectable') : ~selectable'[n].selected
     /\ (pc = "prompt" /\ lastStep = "none" /\ lastStep' = "done") =>
          /\ selState' = "CONFIRMED"
          /\ files_to_scan' = Some(<<>>)]_vars

\* `none` has acted on a list that an exclusion had cut down
C11_Witness ==
  /\ lastStep = "none"
  /\ exclusions # {}
  /\ Len(selectable) > 0
  /\ \A n \in 1..Len(selectable) : ~selectable[n].selected

\* every token of line k is an integer
AllInts(k) == \A t \in 1..Len(PartsOf[k]) : IsInt(PartsOf[k][t])

\* the integer id occurs among the tokens of line k
Names(k, id) == \E t \in 1..Len(PartsOf[k]) : IntVal(PartsOf[k][t]) = id

\* C12: a line of integers flips exactly the entries whose id it names, each
\* once, keeps ids, paths, order and the exclusion set, and stays at the
\* prompt whatever other integers it holds.
C12_ToggleFlipsNamedIds ==
  [][\A k \in Lines :
       (CmdToggle(k) /\ AllInts(k)) =>
         /\ Len(selectable') = Len(selectable)
         /\ \A n \in 1..Len(selectable) :
              /\ selectable'[n].id = selectable[n].id
              /\ selectable'[n].path_obj = selectable[n].path_obj
              /\ selectable'[n].selected =
                   IF Names(k, selectable[n].id) THEN ~selectable[n].selected
                   ELSE selectable[n].selected
         /\ exclusions' = exclusions
         /\ selState' = "REVIEWING"
         /\ pc' = "prompt"]_vars

\* a toggle has left one entry selected and another not
C12_Witness ==
  /\ lastStep = "toggle"
  /\ \E n \in 1..Len(selectable) : selectable[n].selected
  /\ \E n \in 1..Len(selectable) : ~selectable[n].selected

\* C13: a line that is no keyword command and holds a token that is not an
\* integer flips nothing and changes neither the entries nor the exclusion
\* set; the selector stays at the prompt.
C13_InvalidInputNoChange ==
  [][\A k \in Lines :
       (CmdToggle(k) /\ ~AllInts(k)) =>
         /\ UNCHANGED <<initial, exclusions, selectable, selState, files_to_scan>>
         /\ pc' = "prompt"]_vars

\* a bad line was rejected while an entry stood deselected
C13_Witness ==
  /\ lastStep = "invalid"
  /\ \E n \in 1..Len(selectable) : ~selectable[n].selected
  /\ \E n \in 1..Len(selectable) : selectable[n].selected

\* what discovery excludes by: the built-in sets and the normalised options
ExcludedExtensions == DEFAULT_EXCLUDED_EXTENSIONS \cup _normalize_extensions(exclude_ext_cli)
ExcludedPatterns == DEFAULT_EXCLUDED_FILENAMES_PATTERNS \cup _normalize_patterns(exclude_files_cli)

\* the path is excluded by its extension, its name or a directory above it
ExcludedByRule(p) ==
  \/ Lower(Suffix(p)) \in ExcludedExtensions
  \/ Lower(Name(p)) \in ExcludedPatterns
  \/ \E n \in 1..(Len(p) - 1) : Lower(p[n]) \in ExcludedPatterns

\* C14: no file that discovery returns is excluded by its extension, its
\* name or a directory above it, whatever the include list holds.
C14_ExclusionWins ==
  pc = "discovered" =>
    \A n \in 1..Len(initial) : ~ExcludedByRule(initial[n])

\* the include list names the excluded extension .pyc, the tree holds
\* A.PYC and a.py, and discovery returned a.py alone
C14_Witness ==
  /\ pc = "discovered"
  /\ \E t \in 1..Len(include_ext_cli) : NormalizeOne(include_ext_cli[t]) \in ExcludedExtensions
  /\ \E n \in 1..Len(tree) : Lower(Suffix(tree[n])) \in _normalize_extensions(include_ext_cli)
                               /\ ExcludedByRule(tree[n])
  /\ Len(initial) = 1

\* the caller gave an include list with at least one entry that is not empty
HasIncludeList == \E t \in 1..Len(include_ext_cli) : Strip(include_ext_cli[t]) # <<>>

\* the path matches the entry `e` of the include list by its extension or by
\* its name, letter case apart
MatchesEntry(p, e) ==
  /\ Strip(e) # <<>>
  /\ \/ Lower(Suffix(p)) = <<".">> \o Lower(StripDots(e))
     \/ Lower(Name(p)) = Lower(e)

\* the inclusion check as C15 states it
Qualifies(p) ==
  IF HasIncludeList
    THEN \E t \in 1..Len(include_ext_cli) : MatchesEntry(p, include_ext_cli[t])
    ELSE \/ Lower(Suffix(p)) \in DEFAULT_RELEVANT_EXTENSIONS
         \/ Lower(Name(p)) \in DEFAULT_RELEVANT_EXTENSIONS

\* C15: discovery returns, in the order of the walk, exactly the files that
\* are not excluded and whose extension or name matches an entry of the
\* include list, or the built-in set when no list is given.
C15_ReturnsQualifyingFiles ==
  pc = "discovered" =>
    LET Expected(p) == ~ExcludedByRule(p) /\ Qualifies(p)
    IN initial = SelectSeq(tree, Expected)

\* C16: for a positive size the chunks joined in order are the content,
\* every chunk but the last has exactly the size, the last is not empty and
\* not longer, and there are ceil(len / size) of them; for a size of 0 or
\* less the content is the one chunk.
C16_ChunksPartitionContent ==
  pc = "chunks_returned" =>
    IF chunk_size <= 0
      THEN code_chunks = <<file_content>>
      ELSE /\ Concat(code_chunks) = file_content
           /\ \A k \in 1..(Len(code_chunks) - 1) : Len(code_chunks[k]) = chunk_size
           /\ code_chunks # <<>> =>
                /\ Len(code_chunks[Len(code_chunks)]) >= 1
                /\ Len(code_chunks[Len(code_chunks)]) <= chunk_size
           /\ Len(code_chunks) * chunk_size >= Len(file_content)
           /\ (Len(code_chunks) - 1) * chunk_size < Len(file_content) \/ code_chunks = <<>>

\* several chunks, the last one shorter than the size
C16_Witness ==
  /\ pc = "chunks_returned"
  /\ chunk_size > 1
  /\ Len(code_chunks) >= 2
  /\ Len(code_chunks[Len(code_chunks)]) < chunk_size

\* the finding is neither a failure nor the statement that nothing was found
Actionable(f) == ~Contains(f, ErrorMarker) /\ ~Contains(f, NoVulnsMarker)

\* the report is made of a list that is not empty and holds no actionable
\* finding
ReportedNothingActionable ==
  /\ pc = "reported"
  /\ all_llm_findings # <<>>
  /\ \A n \in 1..Len(all_llm_findings) : ~Actionable(all_llm_findings[n])

\* both reports say that the content was reviewed and nothing critical found
SaysNothingCritical ==
  /\ Contains(md_full_content, NothingCriticalMsg)
  /\ Contains(txt_full_content, NothingCriticalMsg)

\* C17 as stated: with findings and none of them actionable, both reports
\* say that nothing critical was found, also when every finding is an error.
C17_NothingCriticalStated == ReportedNothingActionable => SaysNothingCritical

\* C17 as amended: with findings and none of them actionable, both reports
\* say that nothing critical was found exactly when some finding is without
\* the error marker; when every finding is an error neither report says it.
C17_NothingCriticalUnlessAllErrors ==
  ReportedNothingActionable =>
    IF \E n \in 1..Len(all_llm_findings) : ~Contains(all_llm_findings[n], ErrorMarker)
      THEN SaysNothingCritical
      ELSE /\ ~Contains(md_full_content, NothingCriticalMsg)
           /\ ~Contains(txt_full_content, NothingCriticalMsg)

\* a report of errors only, without the statement
C17_Witness ==
  /\ ReportedNothingActionable
  /\ \A n \in 1..Len(all_llm_findings) : Contains(all_llm_findings[n], ErrorMarker)
  /\ ~Contains(md_full_content, NothingCriticalMsg)

\* what analyze_code_with_llm returns when the analysis failed
FailureResults ==
  {analyze_code_with_llm(outcome) : outcome \in {<<"blocked">>, <<"empty">>, <<"raise">>}}

\* C18: every finding that is the result of a failed analysis carries the
\* error marker, and the reports show it under the analysis-issue heading
\* and not as a finding to act on.
C18_FailuresAreErrors ==
  \A n \in 1..Len(all_llm_findings) :
    all_llm_findings[n] \in FailureResults =>
      /\ Contains(all_llm_findings[n], ErrorMarker)
      /\ ~Actionable(all_llm_findings[n])
      /\ pc = "reported" =>
           /\ Contains(md_full_content, AnalysisIssueMd \o all_llm_findings[n])
           /\ Contains(txt_full_content, AnalysisIssueTxt \o all_llm_findings[n])

\* C19: a read error, a blank file and a file skipped by the whole-file
\* check lead to the next file of the list (or to the report after the last
\* one), the read error leaving one finding and the total as it was; a
\* chunk sent, whatever the analysis returned, leads to the next chunk or
\* file unless the budget is reached; and main goes to the report with a
\* file of the list left only when the budget is reached.
C19_ErrorsAndSkipsContinue ==
  [][/\ (pc = "file" /\ lastStep' \in {"read_error", "blank_file", "pre_skip"}) =>
          /\ IF i < Len(files_to_scan.files)
               THEN pc' = "file" /\ i' = i + 1
               ELSE pc' = "report"
          /\ total_chars_processed' = total_chars_processed
          /\ calls' = calls
          /\ all_llm_findings' =
               IF lastStep' = "read_error"
                 THEN Append(all_llm_findings, ReadErrorFinding)
                 ELSE all_llm_findings
     /\ (pc = "chunk" /\ lastStep' = "sent"
           /\ ~BudgetReached(total_chars_processed', max_total_chars)) =>
          IF chunk_idx < Len(code_chunks)
            THEN pc' = "chunk" /\ chunk_idx' = chunk_idx + 1 /\ i' = i
          ELSE IF i < Len(files_to_scan.files)
            THEN pc' = "file" /\ i' = i + 1
          ELSE pc' = "report"
     /\ (pc \in {"file", "chunk"} /\ pc' = "report" /\ i < Len(files_to_scan.files)) =>
          BudgetReached(total_chars_processed', max_total_chars)]_vars

\* the analysis of the first file failed, the second file was read all the
\* same and could not be read, and both failures are in the findings
C19_Witness ==
  /\ lastStep = "read_error"
  /\ reads = 2
  /\ calls = 1
  /\ total_chars_processed > 0
  /\ all_llm_findings = <<analyze_code_with_llm(<<"blocked">>), ReadErrorFinding>>

\* C20: reading a file that is empty or whitespace only, and passing a
\* chunk that is empty or whitespace only, leave the total, the calls of
\* the analysis and the findings as they were; the total only ever grows,
\* by the length of the chunk a call of the analysis was given.
C20_BlankSkippedTotalOnlyBySends ==
  [][/\ pc = "file" =>
          \A c \in Contents :
            (Strip(c) = <<>> /\ ReadFile(<<"text", c>>)) =>
              UNCHANGED <<total_chars_processed, calls, all_llm_findings>>
     /\ (pc = "chunk" /\ Strip(code_chunks[chunk_idx]) = <<>>) =>
          UNCHANGED <<total_chars_processed, calls, all_llm_findings>>
     /\ total_chars_processed' # total_chars_processed =>
          /\ pc = "chunk"
          /\ calls' = calls + 1
          /\ total_chars_processed' = total_chars_processed + Len(code_chunks[chunk_idx])]_vars

\* a whitespace chunk was passed after a chunk had been sent
C20_Witness ==
  /\ lastStep = "blank_chunk"
  /\ total_chars_processed = 1
  /\ calls = 1

\* the token without its surrounding whitespace and its leading dots
Stripped(e) == LStrip(Strip(e), {"."})

\* C21: the result holds, for each token that is not empty once stripped of
\* surrounding whitespace and leading dots, one dot and the rest in lower
\* case, and nothing else; and each extension of the result normalises to
\* itself.
C21_NormalisationRule ==
  pc = "normalized" =>
    /\ normalized = {<<".">> \o Lower(Stripped(extensions[n])) :
                       n \in {m \in 1..Len(extensions) : Stripped(extensions[m]) # <<>>}}
    /\ \A x \in normalized : _normalize_extensions(<<x>>) = {x}

\* C22: whenever the selector waits at its prompt, the entries are the files
\* of the original candidate list whose extension is not in the current
\* exclusion set, in the original order, and their ids are 1..k in list order.
C22_ListIsFilteredAndNumbered ==
  (pc = "prompt" /\ selState = "REVIEWING") =>
    /\ Len(selectable) = Len(KeptFiles(exclusions))
    /\ \A n \in 1..Len(selectable) :
         /\ selectable[n].path_obj = KeptFiles(exclusions)[n]
         /\ selectable[n].id = n

\* at the prompt after an exclusion removed the first of two candidates and
\* the remaining entry was toggled off
C22_Witness ==
  /\ pc = "prompt"
  /\ selState = "REVIEWING"
  /\ lastStep = "toggle"
  /\ exclusions # {}
  /\ Len(initial) = 2
  /\ Len(selectable) = 1
  /\ selectable[1].path_obj = initial[2]
  /\ ~selectable[1].selected

\* C23: with a budget above zero, the running total of characters sent to
\* the analysis never exceeds the budget.
C23_TotalWithinBudget ==
  max_total_chars > 0 => total_chars_processed <= max_total_chars

\* the chunks of a second file brought the total exactly to the budget
C23_Witness ==
  /\ max_total_chars > 0
  /\ lastStep = "sent"
  /\ reads = 2
  /\ calls >= 2
  /\ total_chars_processed = max_total_chars

\* C24: no step takes the per-chunk stop; in the chunk loop every chunk that
\* is not blank is sent and counted, and the loop goes on to the next chunk
\* unless every chunk after the current one is blank. (The loop starts at
\* the first chunk, so a file that passed the pre-check is sent whole.)
C24_AllOrNothingPerFile ==
  [][/\ lastStep' # "chunk_stop"
     /\ pc = "chunk" =>
          /\ ~IsBlank(code_chunks[chunk_idx]) =>
               /\ calls' = calls + 1
               /\ total_chars_processed' =
                    total_chars_processed + Len(code_chunks[chunk_idx])
          /\ \/ pc' = "chunk" /\ chunk_idx' = chunk_idx + 1
             \/ /\ pc' # "chunk"
                /\ \A n \in (chunk_idx + 1)..Len(code_chunks) :
                     IsBlank(code_chunks[n])]_vars

\* under a finite budget, after an earlier file was sent, the last of
\* several chunks of a file has been sent and the chunk loop left
C24_Witness ==
  /\ max_total_chars > 0
  /\ lastStep = "sent"
  /\ pc # "chunk"
  /\ reads = 2
  /\ Len(code_chunks) >= 2
  /\ chunk_idx = Len(code_chunks)
  /\ calls >= 3

====
